---- MODULE Spec2Model ----
(***************************************************************************)
(* The CDC -> RDF pipeline of rdf_tranform: the consumer loop              *)
(* (cdc.py), the transformer it uses (transformer.py) and the versioned    *)
(* store (versionning.py).                                                 *)
(***************************************************************************)
EXTENDS Integers, Sequences, FiniteSets, TLC

VARIABLES
    buffer,         \* CDCConsumer.buffer: the list of buffered changes
    graph,          \* CDCConsumer.transformer.graph: a set of triples
    pc,             \* position of CDCConsumer.run: "polling" | "closed"
    last,           \* history: what the last step of the consumer did
    current_graph,  \* VersionedRDFStore.current_graph
    clock,          \* the wall clock read by datetime.utcnow()
    issued,         \* history: one record per create_version call
    got,            \* history: the value of the last get_version call
    peer,           \* a second CDCConsumer: its buffer, graph and position
    probe,          \* two entities and the IRIs built for them
    imp             \* load_fixtures: the database, the stats, the position

vars == <<buffer, graph, pc, last, current_graph, clock, issued, got,
          peer, probe, imp>>
consumerVars == <<buffer, graph, pc, last>>
storeVars == <<current_graph, clock, issued, got>>
\* What the consumer and the store never touch.
otherVars == <<peer, probe, imp>>

(***************************************************************************)
(* Bounds of the model.                                                    *)
(***************************************************************************)
\* CDCConsumer.buffer_size is 1000 in cdc.py:16 ("Adjust based on your
\* needs"); the model flushes at a small threshold.
buffer_size == 2
\* The number of create_version calls explored.
MaxVersions == 2
\* The largest wall-clock reading / caller-supplied timestamp explored.
MaxTime == 2

\* The largest primary key of the entities whose IRIs are compared.
MaxKey == 11

\* The largest number of fixtures one import run receives.
MaxFixtures == 3

\* Python's None, and a Python scalar value (str, int, bool) written as
\* str() prints it.
None == [none |-> TRUE]
Py(text) == [py |-> text]

(***************************************************************************)
(* transformer.py                                                          *)
(***************************************************************************)
FOOTBALL == "http://example.org/football/"
SCHEMA == "http://schema.org/"
RDF == "http://www.w3.org/1999/02/22-rdf-syntax-ns#"

\* rdflib.URIRef / Namespace attribute: an IRI made of a namespace and the
\* pieces of its local part.
URIRef(ns, local) == [iri |-> <<ns, local>>]

\* rdflib's RDF.type.
RDF_type == URIRef(RDF, <<"type">>)

\* rdflib.Literal(value, datatype=...): a typed literal, its lexical form
\* taken from the Python value.
Literal(value, datatype) == [lex |-> value.py, datatype |-> datatype]

\* One entry of a 'properties' dict: (predicate, datatype[, ref_model]).
Prop(field, predicate, datatype) ==
    [field |-> field, predicate |-> predicate, datatype |-> datatype,
     ref_model |-> <<>>]
RefProp(field, predicate, ref) ==
    [field |-> field, predicate |-> predicate, datatype |-> "None",
     ref_model |-> <<ref>>]

\* RDFTransformer.ENTITY_MAPPINGS, the properties in dict (insertion) order.
ENTITY_MAPPINGS ==
    [Country |->
        [rdf_class |-> URIRef(FOOTBALL, <<"Country">>),
         properties |-> <<
            Prop("name", URIRef(SCHEMA, <<"name">>), "xsd:string"),
            Prop("code", URIRef(FOOTBALL, <<"countryCode">>), "xsd:string"),
            Prop("flag_url", URIRef(SCHEMA, <<"image">>), "xsd:anyURI") >>],
     Team |->
        [rdf_class |-> URIRef(FOOTBALL, <<"Team">>),
         properties |-> <<
            Prop("name", URIRef(SCHEMA, <<"name">>), "xsd:string"),
            Prop("code", URIRef(FOOTBALL, <<"teamCode">>), "xsd:string"),
            Prop("founded", URIRef(SCHEMA, <<"foundingDate">>), "xsd:gYear"),
            Prop("is_national", URIRef(FOOTBALL, <<"isNationalTeam">>), "xsd:boolean"),
            Prop("logo_url", URIRef(SCHEMA, <<"image">>), "xsd:anyURI"),
            Prop("total_matches", URIRef(FOOTBALL, <<"totalMatches">>), "xsd:integer"),
            Prop("total_wins", URIRef(FOOTBALL, <<"totalWins">>), "xsd:integer"),
            RefProp("country", URIRef(FOOTBALL, <<"country">>), "Country"),
            RefProp("venue", URIRef(FOOTBALL, <<"homeVenue">>), "Venue") >>]]

\* The class names of football/models.py.
ModelNames ==
    {"Country", "Venue", "League", "Team", "Season", "FixtureStatus",
     "Fixture", "FixtureScore", "FixtureEvent", "FixtureStatistic",
     "FixtureLineup", "FixtureLineupPlayer", "FixtureCoach", "Player",
     "FixturePlayerStatistic", "PlayerStatistics", "PlayerInjury", "Coach",
     "CoachCareer", "Bookmaker", "OddsType", "OddsValue", "Odds",
     "OddsHistory", "Standing", "FixtureH2H", "PlayerSideline",
     "PlayerTransfer", "PlayerTeam", "TeamPlayer", "TeamStatistics",
     "UpdateLog"}

\* str.lower() on the class names of the models.
lower(model_name) ==
    CASE model_name = "Country" -> "country"
      [] model_name = "Venue" -> "venue"
      [] model_name = "League" -> "league"
      [] model_name = "Team" -> "team"
      [] model_name = "Season" -> "season"
      [] model_name = "FixtureStatus" -> "fixturestatus"
      [] model_name = "Fixture" -> "fixture"
      [] model_name = "FixtureScore" -> "fixturescore"
      [] model_name = "FixtureEvent" -> "fixtureevent"
      [] model_name = "FixtureStatistic" -> "fixturestatistic"
      [] model_name = "FixtureLineup" -> "fixturelineup"
      [] model_name = "FixtureLineupPlayer" -> "fixturelineupplayer"
      [] model_name = "FixtureCoach" -> "fixturecoach"
      [] model_name = "Player" -> "player"
      [] model_name = "FixturePlayerStatistic" -> "fixtureplayerstatistic"
      [] model_name = "PlayerStatistics" -> "playerstatistics"
      [] model_name = "PlayerInjury" -> "playerinjury"
      [] model_name = "Coach" -> "coach"
      [] model_name = "CoachCareer" -> "coachcareer"
      [] model_name = "Bookmaker" -> "bookmaker"
      [] model_name = "OddsType" -> "oddstype"
      [] model_name = "OddsValue" -> "oddsvalue"
      [] model_name = "Odds" -> "odds"
      [] model_name = "OddsHistory" -> "oddshistory"
      [] model_name = "Standing" -> "standing"
      [] model_name = "FixtureH2H" -> "fixtureh2h"
      [] model_name = "PlayerSideline" -> "playersideline"
      [] model_name = "PlayerTransfer" -> "playertransfer"
      [] model_name = "PlayerTeam" -> "playerteam"
      [] model_name = "TeamPlayer" -> "teamplayer"
      [] model_name = "TeamStatistics" -> "teamstatistics"
      [] model_name = "UpdateLog" -> "updatelog"
      [] OTHER -> model_name

\* get_uri_for_entity where the segment before the id is the app label of
\* the model instead of its class name.
get_uri_for_entity_AppLabel(model_instance) ==
    URIRef(FOOTBALL, <<"football", "/", model_instance.id>>)

\* get_uri_for_entity where the IRI of a row also carries the row's name.
get_uri_for_entity_WithName(model_instance) ==
    IF "attrs" \in DOMAIN model_instance
    THEN URIRef(FOOTBALL, <<lower(model_instance.model), "/",
                            model_instance.id, "-",
                            model_instance.attrs.name.py>>)
    ELSE URIRef(FOOTBALL, <<lower(model_instance.model), "/",
                            model_instance.id>>)

\* RDFTransformer._get_uri_for_entity: f"{FOOTBALL}{model_name.lower()}/{id}".
get_uri_for_entity(model_instance) ==
    URIRef(FOOTBALL, <<lower(model_instance.model), "/", model_instance.id>>)

\* The triple added for one property of the mapping (lines 61-66).
PropertyTriple(subject_uri, instance, p) ==
    LET value == instance.attrs[p.field]
    IN  IF p.ref_model # <<>>
        THEN <<subject_uri, p.predicate, get_uri_for_entity(value)>>
        ELSE <<subject_uri, p.predicate, Literal(value, p.datatype)>>

\* TransformPrefix without line 53: the type triple is not added.
TransformPrefix_NoType(instance, n) ==
    LET mapping == ENTITY_MAPPINGS[instance.model]
        subject_uri == get_uri_for_entity(instance)
    IN  {PropertyTriple(subject_uri, instance, mapping.properties[j]) :
                j \in {i \in 1..n :
                        instance.attrs[mapping.properties[i].field] # None}}

\* The triples transform_instance has added to the graph once the loop over
\* the properties has completed its first n iterations.
TransformPrefix(instance, n) ==
    LET mapping == ENTITY_MAPPINGS[instance.model]
        subject_uri == get_uri_for_entity(instance)
    IN  {<<subject_uri, RDF_type, mapping.rdf_class>>}
        \cup {PropertyTriple(subject_uri, instance, mapping.properties[j]) :
                j \in {i \in 1..n :
                        instance.attrs[mapping.properties[i].field] # None}}

\* RDFTransformer.transform_instance: the triples it adds to self.graph.
transform_instance(instance) ==
    IF instance.model \notin DOMAIN ENTITY_MAPPINGS
    THEN {}
    ELSE TransformPrefix(instance,
                         Len(ENTITY_MAPPINGS[instance.model].properties))

\* The iterations of the property loop at which getattr(instance, field)
\* (line 57) can raise: reading a foreign key that is set fetches the
\* related row from the database.
RaisePoints(instance) ==
    IF instance.model \notin DOMAIN ENTITY_MAPPINGS
    THEN {}
    ELSE LET props == ENTITY_MAPPINGS[instance.model].properties
         IN  {j \in 1..Len(props) :
                /\ props[j].ref_model # <<>>
                /\ instance.attrs[props[j].field] # None}

(***************************************************************************)
(* The relational source: rows of football/models.py that                 *)
(* model.objects.get(id=...) can return.  Country.name, Team.name,        *)
(* Team.country, Team.is_national and the Team totals are NOT NULL         *)
(* columns; the others are nullable.                                       *)
(***************************************************************************)
Ref(model, id) == [model |-> model, id |-> id]

CountryRow(id, name, code, flag_url) ==
    [model |-> "Country", id |-> id,
     attrs |-> [name |-> name, code |-> code, flag_url |-> flag_url,
                external_id |-> None, update_by |-> Py("manual"),
                update_at |-> Py("2024-01-01T00:00:00+00:00")]]

TeamRow(id, name, code, founded, country, venue) ==
    [model |-> "Team", id |-> id,
     attrs |-> [name |-> name, code |-> code, founded |-> founded,
                is_national |-> Py("False"), logo_url |-> None,
                total_matches |-> Py("0"), total_wins |-> Py("0"),
                country |-> country, venue |-> venue,
                external_id |-> Py("33"),
                total_draws |-> Py("0"), total_losses |-> Py("0"),
                total_goals_scored |-> Py("0"),
                total_goals_conceded |-> Py("0"),
                update_by |-> Py("manual"),
                update_at |-> Py("2024-01-01T00:00:00+00:00")]]

VenueRow(id, name, country) ==
    [model |-> "Venue", id |-> id,
     attrs |-> [name |-> name, country |-> country,
                external_id |-> Py("494"), address |-> None,
                city |-> Py("London"), capacity |-> None,
                surface |-> None, image_url |-> None,
                update_by |-> Py("manual"),
                update_at |-> Py("2024-01-01T00:00:00+00:00")]]

\* The states of the rows the log talks about: Team 42 before and after an
\* UPDATE that renames it and clears its code; Country 8 has no code.
Rows ==
    { CountryRow(7, Py("England"), Py("GB"), None),
      CountryRow(8, Py("Wales"), None, None),
      TeamRow(42, Py("Arsenal"), Py("ARS"), None, Ref("Country", 7), None),
      TeamRow(42, Py("Arsenal FC"), None, Py("1886"), Ref("Country", 7),
              Ref("Venue", 1)),
      VenueRow(1, Py("Emirates"), Ref("Country", 7)) }

\* django.apps.apps.get_model: the model class of a table name, or a
\* LookupError.
get_model(table_name) ==
    CASE table_name = "country" -> "Country"
      [] table_name = "team" -> "Team"
      [] table_name = "venue" -> "Venue"
      [] OTHER -> "LookupError"

(***************************************************************************)
(* cdc.py: the messages of the log.  A key of the JSON body that may be    *)
(* absent is a sequence of at most one element.                            *)
(***************************************************************************)
Message(json, table, op, id) ==
    [json |-> json, table |-> table, op |-> op, id |-> id]

\* The well-formed messages: an operation c, u or d on a row of a table.
WellFormed ==
    {Message(TRUE, <<m[1]>>, <<m[2]>>, <<m[3]>>) :
        m \in {<<"country", "c", 7>>, <<"country", "d", 7>>,
               <<"country", "c", 8>>,
               <<"team", "c", 42>>, <<"team", "u", 42>>, <<"team", "d", 42>>,
               <<"venue", "u", 1>>}}

\* The malformed ones: a body that is no JSON, no operation, no primary
\* key, an unknown operation code.
Malformed ==
    { Message(FALSE, <<>>, <<>>, <<>>),
      Message(TRUE, <<"team">>, <<>>, <<42>>),
      Message(TRUE, <<"team">>, <<"c">>, <<>>),
      Message(TRUE, <<"team">>, <<"x">>, <<42>>) }

\* Those process_message cannot resolve: no source table, a table without a
\* model, a row that is gone.
Unresolved ==
    { Message(TRUE, <<>>, <<"c">>, <<42>>),
      Message(TRUE, <<"player">>, <<"c">>, <<42>>),
      Message(TRUE, <<"team">>, <<"u">>, <<99>>) }

Messages == WellFormed \cup Malformed \cup Unresolved

\* The rows model.objects.get(id=...) can return for a message.
RowsOf(message) ==
    {row \in Rows : /\ row.model = get_model(message.table[1])
                    /\ row.id = message.id[1]}

\* What lines 21-37 of process_message do with a message: the exception they
\* raise, or "append" (lines 30-34), "delete" (line 37), or "ignored" (an
\* operation code that matches neither branch).
Decode(message) ==
    IF ~message.json THEN "JSONDecodeError"
    ELSE IF message.table = <<>> THEN "KeyError_table"
    ELSE IF message.op = <<>> THEN "KeyError_op"
    ELSE IF get_model(message.table[1]) = "LookupError" THEN "LookupError"
    ELSE IF message.op[1] \in {"c", "u"}
         THEN IF message.id = <<>> THEN "KeyError_id"
              ELSE IF RowsOf(message) = {} THEN "DoesNotExist"
              ELSE "append"
    ELSE IF message.op[1] = "d" THEN "delete"
    ELSE "ignored"

Exceptions ==
    {"JSONDecodeError", "KeyError_table", "KeyError_op", "LookupError",
     "KeyError_id", "DoesNotExist"}

\* The dict appended to the buffer (lines 30-34).
Change(operation, instance) ==
    [operation |-> operation, instance |-> instance, model |-> instance.model]

\* The changes of a buffer that process_buffer transforms (line 51).
Transformed(buf, n) ==
    {i \in 1..n : buf[i].operation \in {"c", "u"}}

\* The ways the loop of process_buffer can go: <<>> when no call raises,
\* <<i, j>> when the transformation of change i raises at property j.
Raises(buf) ==
    {<<>>} \cup UNION {{<<i, j>> : j \in RaisePoints(buf[i].instance)} :
                        i \in Transformed(buf, Len(buf))}

\* GraphAfter where every batch also records a provenance statement numbered
\* by the size of the graph it was applied to.
GraphAfter_Provenance(g, buf, raise) ==
    g \cup UNION {transform_instance(buf[i].instance) :
                    i \in Transformed(buf, Len(buf))}
      \cup {<<URIRef(FOOTBALL, <<"batch">>), URIRef(FOOTBALL, <<"generatedBy">>),
              URIRef(FOOTBALL, <<"activity", "/", Cardinality(g)>>)>>}

\* transformer.graph after process_buffer (lines 48-60) ran over buf.
GraphAfter(g, buf, raise) ==
    IF raise = <<>>
    THEN g \cup UNION {transform_instance(buf[i].instance) :
                        i \in Transformed(buf, Len(buf))}
    ELSE g \cup UNION {transform_instance(buf[i].instance) :
                        i \in Transformed(buf, raise[1] - 1)}
           \cup TransformPrefix(buf[raise[1]].instance, raise[2] - 1)

\* CDCConsumer.buffer after process_buffer: cleared on line 56 and, when a
\* transformation raised, on line 60.
BufferAfter(buf, raise) == <<>>

\* The record kept of a step of the consumer: the message handled, what
\* process_message did with it, and for a flush the batch that was processed,
\* where it raised and the statements the flush removed from the graph.
Step(step, message, outcome, flushed, batch, raise, removed) ==
    [step |-> step, message |-> message, outcome |-> outcome,
     flushed |-> flushed, batch |-> batch, raise |-> raise,
     removed |-> removed]

\* The message field of a step that handled none.
NoMessage == Message(FALSE, <<"none">>, <<>>, <<>>)
Idle(step, outcome) == Step(step, NoMessage, outcome, FALSE, <<>>, <<>>, {})

\* CDCConsumer.process_buffer (lines 46-60) over the batch buf, as the last
\* call of process_message(message).
process_buffer(message, d, buf) ==
    \E raise \in Raises(buf) :
        /\ graph' = GraphAfter(graph, buf, raise)
        /\ buffer' = BufferAfter(buf, raise)
        /\ last' = Step("process_message", message, d, TRUE, buf, raise,
                        graph \ graph')

\* process_message where the Delete branch (lines 35-37) removes the
\* statements of the entity and prunes those that refer to it.
process_message_DeletePrunes(message) ==
    /\ pc = "polling"
    /\ UNCHANGED <<pc, storeVars, otherVars>>
    /\ LET d == Decode(message)
           buf == IF d = "append"
                  THEN {Append(buffer, Change(message.op[1], row)) :
                            row \in RowsOf(message)}
                  ELSE {buffer}
       IN  \E b \in buf :
            IF d \notin Exceptions /\ Len(b) >= buffer_size
            THEN process_buffer(message, d, b)
            ELSE /\ buffer' = b
                 /\ graph' =
                      IF d = "delete"
                      THEN LET uri == get_uri_for_entity(
                                        Ref(get_model(message.table[1]),
                                            message.id[1]))
                           IN  {t \in graph : t[1] # uri /\ t[3] # uri}
                      ELSE graph
                 /\ last' = Step("process_message", message, d, FALSE,
                                 <<>>, <<>>, {})

\* process_message where line 40 compares with > instead of >=.
process_message_FlushAbove(message) ==
    /\ pc = "polling"
    /\ UNCHANGED <<pc, storeVars, otherVars>>
    /\ LET d == Decode(message)
           buf == IF d = "append"
                  THEN {Append(buffer, Change(message.op[1], row)) :
                            row \in RowsOf(message)}
                  ELSE {buffer}
       IN  \E b \in buf :
            IF d \notin Exceptions /\ Len(b) > buffer_size
            THEN process_buffer(message, d, b)
            ELSE /\ buffer' = b
                 /\ graph' = graph
                 /\ last' = Step("process_message", message, d, FALSE,
                                 <<>>, <<>>, {})

\* CDCConsumer.process_message (lines 18-44), process_buffer included.
process_message(message) ==
    /\ pc = "polling"
    /\ UNCHANGED <<pc, storeVars, otherVars>>
    /\ LET d == Decode(message)
           buf == IF d = "append"
                  THEN {Append(buffer, Change(message.op[1], row)) :
                            row \in RowsOf(message)}
                  ELSE {buffer}
       IN  \E b \in buf :
            IF d \notin Exceptions /\ Len(b) >= buffer_size
            THEN process_buffer(message, d, b)
            ELSE /\ buffer' = b
                 /\ graph' = graph
                 /\ last' = Step("process_message", message, d, FALSE,
                                 <<>>, <<>>, {})

\* CDCConsumer.run, lines 66-68: poll timed out, msg is None.
PollNone ==
    /\ pc = "polling"
    /\ last' = Idle("poll", "none")
    /\ UNCHANGED <<buffer, graph, pc, storeVars, otherVars>>

\* CDCConsumer.run, lines 69-71: the end-of-partition marker.
PollPartitionEOF ==
    /\ pc = "polling"
    /\ last' = Idle("poll", "partition_eof")
    /\ UNCHANGED <<buffer, graph, pc, storeVars, otherVars>>

\* PollError where the loop is left on a consumer error.
PollError_Break ==
    /\ pc = "polling"
    /\ pc' = "closed"
    /\ last' = Idle("poll", "error")
    /\ UNCHANGED <<buffer, graph, storeVars, otherVars>>

\* CDCConsumer.run, lines 69-73: any other consumer error.
PollError ==
    /\ pc = "polling"
    /\ last' = Idle("poll", "error")
    /\ UNCHANGED <<buffer, graph, pc, storeVars, otherVars>>

\* CDCConsumer.run, lines 76-77: the loop is left by an exception out of poll
\* (KeyboardInterrupt, KafkaException) and the consumer is closed.
Close ==
    /\ pc = "polling"
    /\ pc' = "closed"
    /\ last' = Idle("close", "closed")
    /\ UNCHANGED <<buffer, graph, storeVars, otherVars>>

(***************************************************************************)
(* versionning.py                                                          *)
(***************************************************************************)
store_uri == "http://example.org/store"

\* datetime.isoformat(): the text of a timestamp.
isoformat(timestamp) == <<"isoformat", timestamp>>

\* One element of the changes handed to create_version.
StoreChange(type, triple) == [type |-> type, triple |-> triple]

\* Lines 25-29: the changes applied in order to the version graph.
RECURSIVE ApplyChanges(_, _)
ApplyChanges(version_graph, changes) ==
    IF changes = <<>> THEN version_graph
    ELSE LET change == Head(changes)
             g == IF change.type = "add"
                  THEN version_graph \cup {change.triple}
                  ELSE IF change.type = "remove"
                  THEN version_graph \ {change.triple}
                  ELSE version_graph
         IN  ApplyChanges(g, Tail(changes))

\* The URI create_version returns (line 17).
version_uri(timestamp) ==
    URIRef(store_uri, <<"/version/", isoformat(timestamp)>>)

\* VersionedRDFStore.create_version (lines 12-34); timestamp is <<>> for the
\* default None.  The version graph is a local of the call: the record of
\* the call is all that is left of it.
create_version(changes, timestamp) ==
    /\ Len(issued) < MaxVersions
    /\ LET ts == IF timestamp = <<>> THEN clock ELSE timestamp[1]
           version_graph == ApplyChanges(current_graph, changes)
       IN  issued' = Append(issued,
                            [uri |-> version_uri(ts), timestamp |-> ts,
                             changes |-> changes,
                             version_graph |-> version_graph])
    /\ current_graph' = current_graph
    /\ UNCHANGED <<clock, got, consumerVars, otherVars>>

\* VersionedRDFStore.get_version (lines 36-39): the body is "pass".
get_version(uri) ==
    /\ issued # <<>>
    /\ got' = [uri |-> uri, value |-> None]
    /\ UNCHANGED <<current_graph, clock, issued, consumerVars, otherVars>>

\* Time passes between two readings of datetime.utcnow().
Tick ==
    /\ clock < MaxTime
    /\ clock' = clock + 1
    /\ UNCHANGED <<current_graph, issued, got, consumerVars, otherVars>>

\* The triples and the changes handed to the store.
StoreTriples ==
    {t \in transform_instance(CountryRow(7, Py("England"), None, None)) : TRUE}

StoreChanges ==
    {<<>>}
    \cup {<<StoreChange(ty, t)>> : ty \in {"add", "remove"}, t \in StoreTriples}
    \cup {<<StoreChange("add", t), StoreChange(ty, u)>> :
            ty \in {"add", "remove"}, t \in StoreTriples, u \in StoreTriples}

(***************************************************************************)
(* validation_config.py: nothing in the repository reads these settings.   *)
(***************************************************************************)
\* VALIDATION_PIPELINE['fail_fast'].
fail_fast == TRUE

\* SHACL_SHAPES: the predicates a shape gives min_count 1, per model.
MinCountOne(model) ==
    CASE model = "Country" -> {URIRef(SCHEMA, <<"name">>),
                               URIRef(FOOTBALL, <<"countryCode">>)}
      [] model = "Team" -> {URIRef(SCHEMA, <<"name">>)}
      [] OTHER -> {}

\* An instance fails shape validation when its statements lack a predicate
\* its shape requires.
ShapeFails(instance) ==
    \E predicate \in MinCountOne(instance.model) :
        \A t \in transform_instance(instance) : t[2] # predicate

\* ERROR_HANDLING: what is done with a violation of each severity.
ERROR_HANDLING ==
    [validation_failure |->
        [log_error |-> TRUE, raise_exception |-> TRUE,
         notification_required |-> TRUE],
     business_rule_violation |->
        [log_error |-> TRUE, raise_exception |-> TRUE,
         notification_required |-> TRUE],
     data_quality_issue |->
        [log_error |-> TRUE, raise_exception |-> FALSE,
         notification_required |-> TRUE]]

(***************************************************************************)
(* transform.py and config.py: the registry-driven transformer's IRIs.     *)
(***************************************************************************)
\* config.FOOTBALL.
config_FOOTBALL == "http://example.org/football/"

\* transform.py, RDFTransformer._get_uri_for_entity:
\* f"{FOOTBALL}{model_name.lower()}/{model_instance.id}" over config.FOOTBALL.
transform_get_uri_for_entity(model_instance) ==
    URIRef(config_FOOTBALL,
           <<lower(model_instance.model), "/", model_instance.id>>)

\* config.URI_PATTERNS, the entries of the football namespace:
\* FOOTBALL['country/{}'] is the IRI of the namespace followed by the text.
URI_PATTERNS ==
    [Country |-> URIRef(config_FOOTBALL, <<"country", "/", "{}">>),
     Team |-> URIRef(config_FOOTBALL, <<"team", "/", "{}">>),
     Player |-> URIRef(config_FOOTBALL, <<"player", "/", "{}">>),
     Match |-> URIRef(config_FOOTBALL, <<"match", "/", "{}">>)]

\* str.format on a pattern: the replacement field {} is replaced by the
\* argument.
format(pattern, argument) ==
    LET local == pattern.iri[2]
    IN  URIRef(pattern.iri[1],
               [i \in 1..Len(local) |->
                    IF local[i] = "{}" THEN argument ELSE local[i]])

\* config.DCTERMS.
DCTERMS == "http://purl.org/dc/terms/"

\* config.ENTITY_MAPPINGS, the entries of Country, Venue and Team (lines
\* 93-177), the properties in dict order; transform.py reads 'rdf_class' and
\* 'properties' only.
config_ENTITY_MAPPINGS ==
    [Country |->
        [rdf_class |-> URIRef(config_FOOTBALL, <<"Country">>),
         properties |-> <<
            Prop("external_id", URIRef(config_FOOTBALL, <<"externalId">>), "xsd:integer"),
            Prop("name", URIRef(SCHEMA, <<"name">>), "xsd:string"),
            Prop("code", URIRef(config_FOOTBALL, <<"countryCode">>), "xsd:string"),
            Prop("flag_url", URIRef(SCHEMA, <<"image">>), "xsd:anyURI"),
            Prop("update_by", URIRef(DCTERMS, <<"modifiedBy">>), "xsd:string"),
            Prop("update_at", URIRef(DCTERMS, <<"modified">>), "xsd:dateTime") >>],
     Venue |->
        [rdf_class |-> URIRef(config_FOOTBALL, <<"Venue">>),
         properties |-> <<
            Prop("external_id", URIRef(config_FOOTBALL, <<"externalId">>), "xsd:integer"),
            Prop("name", URIRef(SCHEMA, <<"name">>), "xsd:string"),
            Prop("address", URIRef(SCHEMA, <<"address">>), "xsd:string"),
            Prop("city", URIRef(SCHEMA, <<"addressLocality">>), "xsd:string"),
            RefProp("country", URIRef(config_FOOTBALL, <<"country">>), "Country"),
            Prop("capacity", URIRef(config_FOOTBALL, <<"capacity">>), "xsd:integer"),
            Prop("surface", URIRef(config_FOOTBALL, <<"surfaceType">>), "xsd:string"),
            Prop("image_url", URIRef(SCHEMA, <<"image">>), "xsd:anyURI"),
            Prop("update_by", URIRef(DCTERMS, <<"modifiedBy">>), "xsd:string"),
            Prop("update_at", URIRef(DCTERMS, <<"modified">>), "xsd:dateTime") >>],
     Team |->
        [rdf_class |-> URIRef(config_FOOTBALL, <<"Team">>),
         properties |-> <<
            Prop("external_id", URIRef(config_FOOTBALL, <<"externalId">>), "xsd:integer"),
            Prop("name", URIRef(SCHEMA, <<"name">>), "xsd:string"),
            Prop("code", URIRef(config_FOOTBALL, <<"teamCode">>), "xsd:string"),
            RefProp("country", URIRef(config_FOOTBALL, <<"country">>), "Country"),
            Prop("founded", URIRef(SCHEMA, <<"foundingDate">>), "xsd:gYear"),
            Prop("is_national", URIRef(config_FOOTBALL, <<"isNationalTeam">>), "xsd:boolean"),
            Prop("logo_url", URIRef(SCHEMA, <<"logo">>), "xsd:anyURI"),
            RefProp("venue", URIRef(config_FOOTBALL, <<"venue">>), "Venue"),
            Prop("total_matches", URIRef(config_FOOTBALL, <<"totalMatches">>), "xsd:integer"),
            Prop("total_wins", URIRef(config_FOOTBALL, <<"totalWins">>), "xsd:integer"),
            Prop("total_draws", URIRef(config_FOOTBALL, <<"totalDraws">>), "xsd:integer"),
            Prop("total_losses", URIRef(config_FOOTBALL, <<"totalLosses">>), "xsd:integer"),
            Prop("total_goals_scored", URIRef(config_FOOTBALL, <<"totalGoalsScored">>), "xsd:integer"),
            Prop("total_goals_conceded", URIRef(config_FOOTBALL, <<"totalGoalsConceded">>), "xsd:integer"),
            Prop("update_by", URIRef(DCTERMS, <<"modifiedBy">>), "xsd:string"),
            Prop("update_at", URIRef(DCTERMS, <<"modified">>), "xsd:dateTime") >>]]

\* transform.py, RDFTransformer.transform_instance (lines 16-41): the
\* triples it adds to its graph.
registry_transform_instance(instance) ==
    IF instance.model \notin DOMAIN config_ENTITY_MAPPINGS
    THEN {}
    ELSE LET mapping == config_ENTITY_MAPPINGS[instance.model]
             subject_uri == transform_get_uri_for_entity(instance)
             set == {j \in 1..Len(mapping.properties) :
                        instance.attrs[mapping.properties[j].field] # None}
             triple(p) ==
                LET value == instance.attrs[p.field]
                IN  IF p.ref_model # <<>>
                    THEN <<subject_uri, p.predicate,
                           transform_get_uri_for_entity(value)>>
                    ELSE <<subject_uri, p.predicate,
                           Literal(value, p.datatype)>>
         IN  {<<subject_uri, RDF_type, mapping.rdf_class>>}
                \cup {triple(mapping.properties[j]) : j \in set}

(***************************************************************************)
(* The text of an entity IRI.                                              *)
(***************************************************************************)
\* The characters of a text: of the lowercased class names and of the app
\* label of the models.
chars(text) ==
    CASE text = "country" -> <<"c", "o", "u", "n", "t", "r", "y">>
      [] text = "venue" -> <<"v", "e", "n", "u", "e">>
      [] text = "league" -> <<"l", "e", "a", "g", "u", "e">>
      [] text = "team" -> <<"t", "e", "a", "m">>
      [] text = "season" -> <<"s", "e", "a", "s", "o", "n">>
      [] text = "fixturestatus" -> <<"f", "i", "x", "t", "u", "r", "e", "s", "t", "a", "t", "u", "s">>
      [] text = "fixture" -> <<"f", "i", "x", "t", "u", "r", "e">>
      [] text = "fixturescore" -> <<"f", "i", "x", "t", "u", "r", "e", "s", "c", "o", "r", "e">>
      [] text = "fixtureevent" -> <<"f", "i", "x", "t", "u", "r", "e", "e", "v", "e", "n", "t">>
      [] text = "fixturestatistic" -> <<"f", "i", "x", "t", "u", "r", "e", "s", "t", "a", "t", "i", "s", "t", "i", "c">>
      [] text = "fixturelineup" -> <<"f", "i", "x", "t", "u", "r", "e", "l", "i", "n", "e", "u", "p">>
      [] text = "fixturelineupplayer" -> <<"f", "i", "x", "t", "u", "r", "e", "l", "i", "n", "e", "u", "p", "p", "l", "a", "y", "e", "r">>
      [] text = "fixturecoach" -> <<"f", "i", "x", "t", "u", "r", "e", "c", "o", "a", "c", "h">>
      [] text = "player" -> <<"p", "l", "a", "y", "e", "r">>
      [] text = "fixtureplayerstatistic" -> <<"f", "i", "x", "t", "u", "r", "e", "p", "l", "a", "y", "e", "r", "s", "t", "a", "t", "i", "s", "t", "i", "c">>
      [] text = "playerstatistics" -> <<"p", "l", "a", "y", "e", "r", "s", "t", "a", "t", "i", "s", "t", "i", "c", "s">>
      [] text = "playerinjury" -> <<"p", "l", "a", "y", "e", "r", "i", "n", "j", "u", "r", "y">>
      [] text = "coach" -> <<"c", "o", "a", "c", "h">>
      [] text = "coachcareer" -> <<"c", "o", "a", "c", "h", "c", "a", "r", "e", "e", "r">>
      [] text = "bookmaker" -> <<"b", "o", "o", "k", "m", "a", "k", "e", "r">>
      [] text = "oddstype" -> <<"o", "d", "d", "s", "t", "y", "p", "e">>
      [] text = "oddsvalue" -> <<"o", "d", "d", "s", "v", "a", "l", "u", "e">>
      [] text = "odds" -> <<"o", "d", "d", "s">>
      [] text = "oddshistory" -> <<"o", "d", "d", "s", "h", "i", "s", "t", "o", "r", "y">>
      [] text = "standing" -> <<"s", "t", "a", "n", "d", "i", "n", "g">>
      [] text = "fixtureh2h" -> <<"f", "i", "x", "t", "u", "r", "e", "h", "2", "h">>
      [] text = "playersideline" -> <<"p", "l", "a", "y", "e", "r", "s", "i", "d", "e", "l", "i", "n", "e">>
      [] text = "playertransfer" -> <<"p", "l", "a", "y", "e", "r", "t", "r", "a", "n", "s", "f", "e", "r">>
      [] text = "playerteam" -> <<"p", "l", "a", "y", "e", "r", "t", "e", "a", "m">>
      [] text = "teamplayer" -> <<"t", "e", "a", "m", "p", "l", "a", "y", "e", "r">>
      [] text = "teamstatistics" -> <<"t", "e", "a", "m", "s", "t", "a", "t", "i", "s", "t", "i", "c", "s">>
      [] text = "updatelog" -> <<"u", "p", "d", "a", "t", "e", "l", "o", "g">>
      [] text = "football" -> <<"f", "o", "o", "t", "b", "a", "l", "l">>

\* str() of a non-negative int, as the f-string formats the id.
RECURSIVE str_int(_)
str_int(n) ==
    LET digit == <<"0", "1", "2", "3", "4", "5", "6", "7", "8", "9">>
    IN  IF n < 10 THEN <<digit[n + 1]>>
        ELSE Append(str_int(n \div 10), digit[(n % 10) + 1])

\* The string an entity IRI is: the f-string of _get_uri_for_entity puts the
\* namespace, the lowercased name, "/" and the id one after the other.
iri_text(uri) ==
    <<uri.iri[1]>> \o chars(uri.iri[2][1]) \o <<uri.iri[2][2]>>
        \o str_int(uri.iri[2][3])

\* The IRIs of two entities are built, by the transformer of the consumer
\* and by the transformer over the registry.
BuildIRIs(a, b) ==
    /\ probe = None
    /\ probe' = [a |-> a, b |-> b,
                 iri_a |-> iri_text(get_uri_for_entity(Ref(a[1], a[2]))),
                 iri_b |-> iri_text(get_uri_for_entity(Ref(b[1], b[2]))),
                 reg_a |-> iri_text(
                     transform_get_uri_for_entity(Ref(a[1], a[2]))),
                 reg_b |-> iri_text(
                     transform_get_uri_for_entity(Ref(b[1], b[2])))]
    /\ UNCHANGED <<consumerVars, storeVars, peer, imp>>

(***************************************************************************)
(* Two consumers, one per partition.                                       *)
(***************************************************************************)
\* One list for every consumer instead of one per instance.
buffer_of_Shared(consumer) == 1

\* CDCConsumer.__init__, line 15: self.buffer = [] binds a list of the
\* instance; the list of the first consumer is the variable buffer, that of
\* the second is peer.buffer.
buffer_of(consumer) == consumer

\* The content of the buffer of a consumer.
TheBuffer(consumer) ==
    IF buffer_of(consumer) = 1 THEN buffer ELSE peer.buffer

\* CDCConsumer.process_message (lines 18-44) run by the second consumer on
\* its own buffer and transformer.
peer_process_message(message) ==
    /\ peer.pc = "polling"
    /\ LET d == Decode(message)
           mine == TheBuffer(2)
           buf == IF d = "append"
                  THEN {Append(mine, Change(message.op[1], row)) :
                            row \in RowsOf(message)}
                  ELSE {mine}
       IN  \E b \in buf :
            \E raise \in IF d \notin Exceptions /\ Len(b) >= buffer_size
                         THEN {<<r>> : r \in Raises(b)} ELSE {<<>>} :
                LET new_buffer == IF raise = <<>> THEN b
                                  ELSE BufferAfter(b, raise[1])
                    new_graph == IF raise = <<>> THEN peer.graph
                                 ELSE GraphAfter(peer.graph, b, raise[1])
                IN  IF buffer_of(2) = 1
                    THEN /\ buffer' = new_buffer
                         /\ peer' = [peer EXCEPT !.graph = new_graph]
                    ELSE /\ buffer' = buffer
                         /\ peer' = [peer EXCEPT !.buffer = new_buffer,
                                                 !.graph = new_graph]
    /\ UNCHANGED <<graph, pc, last, storeVars, probe, imp>>

\* The messages of the two partitions.
TwoMessages ==
    { Message(TRUE, <<"team">>, <<"u">>, <<42>>),
      Message(FALSE, <<>>, <<>>, <<>>) }

(***************************************************************************)
(* load_fixtures: the import of fixtures.                                  *)
(*                                                                         *)
(* The database is a set of rows <<table, key, values>>; key holds the     *)
(* lookup fields of get_or_create / update_or_create, values the defaults. *)
(***************************************************************************)

\* A fixture of the API answer: the fields _process_single_fixture reads.
\* venue = 0 is an answer without a venue id.
FixtureData(id, country, league, season, home, away, status, venue, goals) ==
    [id |-> id, country |-> country, league |-> league, season |-> season,
     home |-> home, away |-> away, status |-> status, venue |-> venue,
     goals |-> goals]

\* The answers of the API: a fixture, the same fixture played (without a
\* venue), and a fixture of another league that shares a team with it.
ApiFixtures ==
    { FixtureData(1, "England", 39, 2023, 33, 34, "NS", 556, 0),
      FixtureData(1, "England", 39, 2023, 33, 34, "FT", 0, 2),
      FixtureData(2, "France", 61, 2023, 85, 34, "FT", 681, 1) }

\* QuerySet.filter(**kwargs).exists() on the lookup fields.
exists(db, table, key) == \E row \in db : row[1] = table /\ row[2] = key

\* Manager.get_or_create: the row is inserted only if no row has the key.
get_or_create(db, table, key, defaults) ==
    IF exists(db, table, key) THEN db ELSE db \cup {<<table, key, defaults>>}

\* Manager.update_or_create: the row with the key carries the defaults.
update_or_create(db, table, key, defaults) ==
    {row \in db : ~(row[1] = table /\ row[2] = key)}
        \cup {<<table, key, defaults>>}

\* Manager.create: one more row of the table.
create(db, table, values) ==
    LET n == Cardinality({row \in db : row[1] = table})
    IN  db \cup {<<table, <<n + 1>>, values>>}

\* _get_or_create_venue: no row without a venue id.
get_or_create_venue(db, fixture_data) ==
    IF fixture_data.venue = 0 THEN db
    ELSE get_or_create(db, "Venue", <<fixture_data.venue>>,
                       <<fixture_data.country>>)

\* _update_fixture_scores, one turn of its loop.
update_fixture_score(db, fixture_data, team) ==
    update_or_create(db, "FixtureScore", <<fixture_data.id, team>>,
                     <<fixture_data.goals>>)

\* _log_update.
log_update(db, fixture_data, created) ==
    create(db, "UpdateLog",
           <<fixture_data.id, IF created THEN "create" ELSE "update">>)

\* _process_single_fixture: the database after each of its statements, in
\* the order of the code; the first entry is the database it starts from.
Statements(db, fixture_data) ==
    LET created == ~exists(db, "Fixture", <<fixture_data.id>>)
        country == get_or_create(db, "Country", <<fixture_data.country>>,
                                 <<>>)
        league  == get_or_create(country, "League", <<fixture_data.league>>,
                                 <<fixture_data.country>>)
        season  == get_or_create(league, "Season",
                                 <<fixture_data.league, fixture_data.season>>,
                                 <<>>)
        home    == get_or_create(season, "Team", <<fixture_data.home>>,
                                 <<fixture_data.country>>)
        away    == get_or_create(home, "Team", <<fixture_data.away>>,
                                 <<fixture_data.country>>)
        status  == get_or_create(away, "FixtureStatus",
                                 <<fixture_data.status>>, <<>>)
        venue   == get_or_create_venue(status, fixture_data)
        fixture == update_or_create(venue, "Fixture", <<fixture_data.id>>,
                       <<fixture_data.league, fixture_data.season,
                         fixture_data.home, fixture_data.away,
                         fixture_data.status, fixture_data.venue,
                         fixture_data.goals>>)
        score1  == update_fixture_score(fixture, fixture_data,
                                        fixture_data.home)
        score2  == update_fixture_score(score1, fixture_data,
                                        fixture_data.away)
        log     == log_update(score2, fixture_data, created)
    IN  <<db, country, league, season, home, away, status, venue, fixture,
          score1, score2, log>>

\* _process_single_fixture, run until it returns or until a statement
\* raises: raise_at statements were executed before the exception;
\* raise_at = Len(Statements) - 1 is the run that returns.
process_single_fixture(db, fixture_data, raise_at) ==
    LET after == Statements(db, fixture_data)
    IN  [db |-> after[raise_at + 1],
         raised |-> raise_at < Len(after) - 1,
         is_new |-> ~exists(db, "Fixture", <<fixture_data.id>>)]

\* _process_single_fixture when no statement raises.
returned(db, fixture_data) ==
    process_single_fixture(db, fixture_data,
                           Len(Statements(db, fixture_data)) - 1).db

\* The exit of the inner "with transaction.atomic()" where an exception
\* leaves the rows written so far in the outer transaction.
atomic_exit_NoSavepoint(savepoint, db, raised) == db

\* The exit of the inner "with transaction.atomic()": the savepoint is
\* released, or the transaction is rolled back to it on an exception.
atomic_exit(savepoint, db, raised) == IF raised THEN savepoint ELSE db

\* The state of the command before it runs.
NotStarted ==
    [pc |-> "idle", fixtures_data |-> <<>>, i |-> 0,
     stats |-> [total |-> 0, created |-> 0, updated |-> 0, failed |-> 0],
     before |-> {}, db |-> {}, committed |-> {}, succeeded |-> <<>>,
     raise_at |-> 0]

\* The databases the command finds: an empty one, and one that holds a
\* fixture of an earlier run.
Databases ==
    { {},
      returned({}, FixtureData(1, "England", 39, 2023, 33, 34, "NS",
                               556, 0)) }

\* handle, until the loop of _process_fixtures: the fixtures are fetched;
\* without fixtures the command returns, else the outer transaction begins
\* and the stats are initialised.
handle(fixtures_data, database) ==
    /\ imp.pc = "idle"
    /\ imp' = [NotStarted EXCEPT
                 !.pc = IF fixtures_data = <<>> THEN "returned"
                        ELSE "processing",
                 !.fixtures_data = fixtures_data,
                 !.i = 1,
                 !.stats = [total |-> Len(fixtures_data), created |-> 0,
                            updated |-> 0, failed |-> 0],
                 !.before = database, !.db = database,
                 !.committed = database]
    /\ UNCHANGED <<consumerVars, storeVars, peer, probe>>

\* _process_fixtures, one turn of the loop: the fixture is processed in a
\* nested transaction; the counter of its outcome is incremented.
process_fixtures_turn ==
    /\ imp.pc = "processing"
    /\ imp.i <= Len(imp.fixtures_data)
    /\ \E raise_at \in
             0..(Len(Statements(imp.db, imp.fixtures_data[imp.i])) - 1) :
          LET fixture_data == imp.fixtures_data[imp.i]
              run == process_single_fixture(imp.db, fixture_data, raise_at)
              counter == IF run.raised THEN "failed"
                         ELSE IF run.is_new THEN "created" ELSE "updated"
          IN  imp' = [imp EXCEPT
                        !.db = atomic_exit(imp.db, run.db, run.raised),
                        !.stats[counter] = @ + 1,
                        !.succeeded = Append(@, ~run.raised),
                        !.raise_at = raise_at,
                        !.i = @ + 1]
    /\ UNCHANGED <<consumerVars, storeVars, peer, probe>>

\* _process_fixtures returns the stats and the outer transaction of handle
\* commits.
process_fixtures_return ==
    /\ imp.pc = "processing"
    /\ imp.i > Len(imp.fixtures_data)
    /\ imp' = [imp EXCEPT !.pc = "committed", !.committed = imp.db]
    /\ UNCHANGED <<consumerVars, storeVars, peer, probe>>

(***************************************************************************)
(* Specifications                                                          *)
(***************************************************************************)
Init ==
    /\ buffer = <<>>
    /\ graph = {}
    /\ pc = "polling"
    /\ last = Idle("init", "none")
    /\ current_graph = {}
    /\ clock = 1
    /\ issued = <<>>
    /\ got = [uri |-> None, value |-> None]
    /\ peer = [buffer |-> <<>>, graph |-> {}, pc |-> "polling"]
    /\ probe = None
    /\ imp = NotStarted

Next ==
    \/ \E message \in Messages : process_message(message)
    \/ PollNone
    \/ PollPartitionEOF
    \/ PollError
    \/ Close

Spec == Init /\ [][Next]_vars

StoreNext ==
    \/ \E changes \in StoreChanges, timestamp \in {<<>>} \cup {<<t>> : t \in 1..MaxTime} :
            create_version(changes, timestamp)
    \/ \E i \in 1..Len(issued) : get_version(issued[i].uri)
    \/ Tick

StoreSpec == Init /\ [][StoreNext]_vars

\* A step of the first consumer, and a step of the second.
FirstStep == \E message \in TwoMessages : process_message(message)
PeerStep == \E message \in TwoMessages : peer_process_message(message)

TwoNext == FirstStep \/ PeerStep

TwoSpec == Init /\ [][TwoNext]_vars

\* The entities whose IRIs are built: every model, the keys up to MaxKey.
Entities == ModelNames \X (0..MaxKey)

IriNext ==
    /\ probe = None
    /\ \E a \in Entities, b \in Entities : BuildIRIs(a, b)

IriSpec == Init /\ [][IriNext]_vars

\* The answers the command receives: up to MaxFixtures fixtures.
FixtureLists ==
    UNION { [1..n -> ApiFixtures] : n \in 0..MaxFixtures }

ImportNext ==
    \/ \E fixtures_data \in FixtureLists, database \in Databases :
          handle(fixtures_data, database)
    \/ process_fixtures_turn
    \/ process_fixtures_return

ImportSpec == Init /\ [][ImportNext]_vars

(***************************************************************************)
(* Properties                                                              *)
(***************************************************************************)
\* The statements a buffered change adds when its transformation completes.
Delta(change) == transform_instance(change.instance)

\* Change i of the last flushed batch was transformed to the end.
Completed(i) ==
    /\ last.flushed
    /\ i \in Transformed(last.batch, Len(last.batch))
    /\ last.raise = <<>> \/ i < last.raise[1]

\* The net effect of a list of store changes: the triples whose last change
\* adds them, and those whose last change removes them.
LastChangeOf(changes, triple) ==
    LET at == {i \in 1..Len(changes) : changes[i].triple = triple}
    IN  changes[CHOOSE i \in at : \A k \in at : k <= i].type
Touched(changes) == {changes[i].triple : i \in 1..Len(changes)}
Added(changes) ==
    {t \in Touched(changes) : LastChangeOf(changes, t) = "add"}
Removed(changes) ==
    {t \in Touched(changes) : LastChangeOf(changes, t) = "remove"}

\* The statement set obtained by replaying the first n deltas from the
\* empty set.
RECURSIVE ReplayChain(_)
ReplayChain(n) ==
    IF n = 0 THEN {}
    ELSE (ReplayChain(n - 1) \ Removed(issued[n].changes))
            \cup Added(issued[n].changes)

\* C1: a commit attempt is atomic: after process_buffer either every change
\* of the batch is applied to the graph and a new Version exists, or no
\* change of the batch is applied and no Version exists.
C1_CommitAtomic ==
    [][last'.flushed =>
        \/ /\ \A i \in Transformed(last'.batch, Len(last'.batch)) :
                Delta(last'.batch[i]) \subseteq graph'
           /\ Len(issued') = Len(issued) + 1
        \/ /\ graph' = graph
           /\ issued' = issued]_vars

\* C1 witness: a flush that raised in the middle left one change of the
\* batch applied and another one not.
C1_PartialBatch ==
    /\ last.flushed
    /\ last.raise # <<>>
    /\ \E i, j \in 1..Len(last.batch) :
        /\ Delta(last.batch[i]) # {}
        /\ Delta(last.batch[i]) \subseteq graph
        /\ ~(Delta(last.batch[j]) \subseteq graph)

\* C2: the statement set of each version is the statement set of the
\* version before it (the empty set for the first) minus the removed set
\* plus the added set of its commit, so that replaying the deltas from the
\* root gives the statement set of every version.
C2_VersionIsPreviousPlusDelta ==
    \A n \in 1..Len(issued) :
        /\ issued[n].version_graph =
              ((IF n = 1 THEN {} ELSE issued[n - 1].version_graph)
                  \ Removed(issued[n].changes))
              \cup Added(issued[n].changes)
        /\ issued[n].version_graph = ReplayChain(n)

\* C3: a batch whose commit failed is still held by the consumer, which is
\* in ErrorBackoff; it is never cleared.
C3_FailedBatchHeld ==
    (last.flushed /\ last.raise # <<>>) =>
        /\ buffer = last.batch
        /\ pc = "error_backoff"

\* Every Create of a mapped type in the last flushed batch, transformed to
\* the end, added the type statement of (T, k) and the statement of each
\* field that is set, and nothing else.
CreateAddsMappedStatements ==
    \A i \in 1..Len(last.batch) :
        LET change == last.batch[i]
        IN  (/\ Completed(i)
             /\ change.operation = "c"
             /\ change.model \in DOMAIN ENTITY_MAPPINGS) =>
            LET added == Delta(change)
                T == change.model
                k == change.instance.id
                subject == [iri |-> <<FOOTBALL, <<lower(T), "/", k>>>>]
                mapping == ENTITY_MAPPINGS[T]
                fields == 1..Len(mapping.properties)
                value(j) == change.instance.attrs[mapping.properties[j].field]
                set == {j \in fields : value(j) # None}
                object(j) ==
                    IF mapping.properties[j].ref_model # <<>>
                    THEN [iri |-> <<FOOTBALL, <<lower(value(j).model), "/",
                                                value(j).id>>>>]
                    ELSE [lex |-> value(j).py,
                          datatype |-> mapping.properties[j].datatype]
            IN  /\ added \subseteq graph
                /\ added = {<<subject, RDF_type, mapping.rdf_class>>}
                     \cup {<<subject, mapping.properties[j].predicate,
                             object(j)>> : j \in set}
                /\ Cardinality({t \in added : t[2] = RDF_type}) = 1
                /\ \A j \in fields :
                     Cardinality({t \in added :
                                    t[2] = mapping.properties[j].predicate})
                        = IF j \in set THEN 1 ELSE 0
                /\ Cardinality(added) = 1 + Cardinality(set)

\* C4: a Create event of a mapped type T with primary key k adds exactly one
\* type statement (uri(T,k), rdf:type, T.class), exactly one statement per
\* mapped field or reference that is not null, none for a null field,
\* nothing else, and removes nothing.
C4_CreateAdded ==
    last.flushed => (last.removed = {} /\ CreateAddsMappedStatements)

\* C4 witness: a batch was flushed in which a Create of a Team with a null
\* field and a reference was transformed to the end.
C4_Witness ==
    /\ last.flushed
    /\ \E i \in 1..Len(last.batch) :
        /\ Completed(i)
        /\ last.batch[i].operation = "c"
        /\ last.batch[i].model = "Team"
        /\ last.batch[i].instance.attrs.venue = None
        /\ last.batch[i].instance.attrs.country # None

\* C5: once a Delete of entity (T, k) has been processed and every batch is
\* committed, no statement with subject uri(T, k) is left in the graph.
C5_DeleteRemovesSubject ==
    (last.outcome = "delete" /\ buffer = <<>>) =>
        \A t \in graph :
            t[1] # get_uri_for_entity(Ref(get_model(last.message.table[1]),
                                          last.message.id[1]))

\* The Update events of the rows, and the graph after one of them alone was
\* flushed.
UpdateChanges == {Change("u", row) : row \in Rows}
ApplyOnce(g, change) == GraphAfter(g, <<change>>, <<>>)

\* C6: an Update event applied twice in a row to any statement set the
\* graph can hold gives the statement set that applying it once gives.
C6_UpdateIdempotent ==
    \A change \in UpdateChanges :
        ApplyOnce(ApplyOnce(graph, change), change) = ApplyOnce(graph, change)

\* C6 witness: the same Update of a Team was applied twice in a row on a
\* graph that held statements of another entity.
C6_Witness ==
    /\ last.flushed
    /\ last.raise = <<>>
    /\ Len(last.batch) >= 2
    /\ \A i \in 1..Len(last.batch) :
        /\ last.batch[i] = last.batch[1]
        /\ last.batch[i].operation = "u"
        /\ last.batch[i].model = "Team"
    /\ \E t \in graph : t[1] # get_uri_for_entity(last.batch[1].instance)

\* C7: timestamps strictly increase along the chain of versions, in the
\* order of the commits, also when the caller supplies the timestamp.
C7_TimestampsIncrease ==
    \A i, j \in 1..Len(issued) :
        i < j => issued[i].timestamp < issued[j].timestamp

\* C8: get_version of the latest version returns the statement set that
\* replaying the chain from the root gives.
C8_GetLatestIsReplay ==
    (issued # <<>> /\ got.uri = issued[Len(issued)].uri) =>
        got.value = [statements |-> ReplayChain(Len(issued))]

\* C9: with fail_fast, a batch holding an entity E that fails shape
\* validation and a valid entity F commits all of F's delta and no statement
\* of E's delta.
C9_FailFastExcludesInvalid ==
    (last.flushed /\ last.raise = <<>> /\ fail_fast) =>
        \A i, j \in 1..Len(last.batch) :
            LET E == last.batch[i]
                F == last.batch[j]
            IN  (ShapeFails(E.instance) /\ ~ShapeFails(F.instance)) =>
                    /\ Delta(F) \subseteq graph
                    /\ Delta(E) \cap graph = {}

\* C10: a malformed message leaves the batch and the graph as they were and
\* the loop polling, and a well-formed message that follows it is buffered:
\* appended to the batch, or flushed as the last change of the batch.
C10_MalformedSkipped ==
    [][/\ (last'.step = "process_message" /\ last'.message \in Malformed) =>
            /\ buffer' = buffer
            /\ graph' = graph
            /\ pc' = "polling"
       /\ (/\ last.step = "process_message"
           /\ last.message \in Malformed
           /\ last'.step = "process_message"
           /\ last'.message \in WellFormed) =>
            \E row \in RowsOf(last'.message) :
                LET change == Change(last'.message.op[1], row)
                IN  \/ ~last'.flushed /\ buffer' = Append(buffer, change)
                    \/ last'.flushed /\ last'.batch = Append(buffer, change)]_vars

\* C11: an event whose transformation fails is dropped from the batch alone:
\* every other event of the flushed batch is still transformed and its
\* statements are in the graph, and the consumer keeps polling.
C11_FailedEventDroppedAlone ==
    last.flushed =>
        /\ \A i \in Transformed(last.batch, Len(last.batch)) :
            (last.raise = <<>> \/ i # last.raise[1]) =>
                Delta(last.batch[i]) \subseteq graph
        /\ pc = "polling"

\* C12: the consumer loop never ends with buffered events: when run has
\* left the loop, the batch it held has been handed to a commit attempt,
\* which leaves the buffer empty.
C12_ShutdownDrains ==
    pc = "closed" => buffer = <<>>

\* Change j is the last one of the batch for its entity type and primary key.
LastForKey(batch, j) ==
    \A k \in (j + 1)..Len(batch) :
        ~(/\ batch[k].model = batch[j].model
          /\ batch[k].instance.id = batch[j].instance.id)

\* C13: events of one primary key are applied in log order: once a batch is
\* committed, for the last event e2 of each entity in it the graph holds,
\* for every property e2 states, the statement of e2 and no statement left
\* by an earlier event e1 of that entity, of the same batch or of an
\* earlier one.
C13_LogOrderReflected ==
    (last.flushed /\ last.raise = <<>>) =>
        \A j \in Transformed(last.batch, Len(last.batch)) :
            LastForKey(last.batch, j) =>
                LET e2 == Delta(last.batch[j])
                    subject == get_uri_for_entity(last.batch[j].instance)
                IN  /\ e2 \subseteq graph
                    /\ \A t \in graph :
                        (/\ t[1] = subject
                         /\ \E u \in e2 : u[2] = t[2]) => t \in e2

\* The severities ERROR_HANDLING raises an exception for, and the
\* severities of the violations the shapes find on an instance.
BlockingSeverities ==
    {severity \in DOMAIN ERROR_HANDLING :
        ERROR_HANDLING[severity].raise_exception}
Severities(instance) ==
    IF ShapeFails(instance) THEN {"validation_failure"} ELSE {}

\* C14: the delta of an entity is left out of the batch commit if and only
\* if its validation gave a violation of severity validation_failure or
\* business_rule_violation; otherwise the delta is in the commit.
C14_ExcludedIffBlocking ==
    (last.flushed /\ last.raise = <<>>) =>
        \A i \in Transformed(last.batch, Len(last.batch)) :
            LET E == last.batch[i]
                blocked == Severities(E.instance) \cap BlockingSeverities # {}
            IN  E.model \in DOMAIN ENTITY_MAPPINGS =>
                    /\ blocked => Delta(E) \cap graph = {}
                    /\ ~blocked => Delta(E) \subseteq graph

\* The IRI of the entity of type T with primary key k.
SubjectIRI(T, k) ==
    [iri |-> <<"http://example.org/football/", <<lower(T), "/", k>>>>]

\* C15: the subject IRI of an entity depends on nothing but its type and
\* its primary key: every statement of the graph, whenever it was added and
\* from whatever state of the row, has the IRI of a (type, key) as subject,
\* the statements a flush adds for an entity have the IRI of its type and
\* key, and both transformers and the URI patterns build the same IRI for
\* every state of a row.
C15_SubjectIRIDeterministic ==
    /\ \A t \in graph : \E row \in Rows : t[1] = SubjectIRI(row.model, row.id)
    /\ \A i \in 1..Len(last.batch) :
        Completed(i) =>
            \A t \in Delta(last.batch[i]) :
                t[1] = SubjectIRI(last.batch[i].model,
                                  last.batch[i].instance.id)
    /\ \A r1, r2 \in Rows :
        (r1.model = r2.model /\ r1.id = r2.id) =>
            /\ get_uri_for_entity(r1) = get_uri_for_entity(r2)
            /\ transform_get_uri_for_entity(r1) = get_uri_for_entity(r2)
    /\ \A row \in Rows :
        row.model \in DOMAIN URI_PATTERNS =>
            format(URI_PATTERNS[row.model], row.id) = get_uri_for_entity(row)

\* C15 witness: the graph holds statements of one entity that were built
\* from two different states of its row, under one subject.
C15_Witness ==
    \E t1, t2 \in graph :
        /\ t1[1] = t2[1]
        /\ t1[2] = URIRef(SCHEMA, <<"name">>)
        /\ t2[2] = URIRef(SCHEMA, <<"name">>)
        /\ t1[3] # t2[3]

\* C16: a commit starts only from a batch that reached the threshold, a
\* commit that succeeded is followed by Polling and a commit that failed by
\* ErrorBackoff.
C16_OnlySpecTransitions ==
    last.flushed =>
        /\ Len(last.batch) >= buffer_size
        /\ last.raise = <<>> => pc = "polling"
        /\ last.raise # <<>> => pc = "error_backoff"

\* The merge of the deltas of all events of a batch.
MergedDelta(batch) ==
    UNION {Delta(batch[i]) : i \in Transformed(batch, Len(batch))}

\* C17: a successful flush produces exactly one new Version, whose delta is
\* the merge of the deltas of the events of the batch, and leaves the batch
\* empty.
C17_FlushCreatesOneVersion ==
    [][(last'.flushed /\ last'.raise = <<>>) =>
        /\ buffer' = <<>>
        /\ Len(issued') = Len(issued) + 1
        /\ Added(issued'[Len(issued')].changes) = MergedDelta(last'.batch)
        /\ Removed(issued'[Len(issued')].changes) = {}]_vars

\* C20: when process_message has returned the buffer holds fewer than
\* buffer_size events, and a flush took the batch at the moment it reached
\* buffer_size, the event of the message that was just handled included.
C20_FlushAtThreshold ==
    /\ Len(buffer) < buffer_size
    /\ last.flushed =>
        /\ Len(last.batch) = buffer_size
        /\ last.outcome = "append"
        /\ \E row \in RowsOf(last.message) :
            last.batch[Len(last.batch)] = Change(last.message.op[1], row)
        /\ buffer = <<>>

\* C20 witness: a message filled the buffer up to buffer_size and the batch
\* was flushed with its event as the last one.
C20_Witness ==
    /\ last.flushed
    /\ Len(last.batch) = buffer_size
    /\ last.batch[buffer_size].model = get_model(last.message.table[1])
    /\ buffer = <<>>

\* The sequential orders in which n commits can be put.
Orders(n) ==
    {order \in [1..n -> 1..n] :
        \A a, b \in 1..n : a # b => order[a] # order[b]}

\* The statement set obtained by replaying from the empty set the deltas of
\* the first k commits of an order.
RECURSIVE ReplayInOrder(_, _)
ReplayInOrder(order, k) ==
    IF k = 0 THEN {}
    ELSE (ReplayInOrder(order, k - 1) \ Removed(issued[order[k]].changes))
            \cup Added(issued[order[k]].changes)

\* C18: the versions produced by commits that ran concurrently are those of
\* some sequential order of the commits: put in that order, each version is
\* built on the one before it and holds the deltas of all commits up to its
\* own, so that no delta is lost and no two versions have the same previous
\* version.
C18_CommitsSerialized ==
    \E order \in Orders(Len(issued)) :
        \A k \in 1..Len(issued) :
            issued[order[k]].version_graph = ReplayInOrder(order, k)

\* The predicates of the mapped properties of a model.
MappedPredicates(model) ==
    {ENTITY_MAPPINGS[model].properties[j].predicate :
        j \in 1..Len(ENTITY_MAPPINGS[model].properties)}

\* C21: an Update retracts before it reasserts: once the batch of an Update
\* of a mapped entity is committed, the statements of the graph with the
\* entity as subject and a mapped predicate are those rebuilt from the new
\* row, so that no statement with a value the Update changed or set to null
\* is left.
C21_UpdateRetractsOldValues ==
    (last.flushed /\ last.raise = <<>>) =>
        \A j \in 1..Len(last.batch) :
            LET change == last.batch[j]
            IN  (/\ change.operation = "u"
                 /\ change.model \in DOMAIN ENTITY_MAPPINGS
                 /\ LastForKey(last.batch, j)) =>
                    \A t \in graph :
                        (/\ t[1] = get_uri_for_entity(change.instance)
                         /\ t[2] \in MappedPredicates(change.model))
                            => t \in Delta(change)

\* The Team of the example: 42, name Arsenal, code ARS, country 7.
ExampleTeam ==
    TeamRow(42, Py("Arsenal"), Py("ARS"), None, Ref("Country", 7), None)

\* C23: the object of the statement of a reference property is the IRI of
\* the referenced entity, built from the target type the mapping declares
\* and the referenced key, and the object of a scalar property is a literal
\* of the declared datatype; the Team 42 of the example yields exactly its
\* type, name, teamCode and country statements.
C23_ReferenceObjectsAreIRIs ==
    \A i \in 1..Len(last.batch) :
        (Completed(i) /\ last.batch[i].model \in DOMAIN ENTITY_MAPPINGS) =>
            LET instance == last.batch[i].instance
                subject == SubjectIRI(instance.model, instance.id)
                properties == ENTITY_MAPPINGS[instance.model].properties
            IN  /\ \A j \in 1..Len(properties) :
                    LET p == properties[j]
                        value == instance.attrs[p.field]
                    IN  value # None =>
                            IF p.ref_model # <<>>
                            THEN <<subject, p.predicate,
                                   SubjectIRI(p.ref_model[1], value.id)>>
                                    \in graph
                            ELSE <<subject, p.predicate,
                                   [lex |-> value.py,
                                    datatype |-> p.datatype]>> \in graph
                /\ instance = ExampleTeam =>
                    Delta(last.batch[i]) =
                        { <<subject, RDF_type, URIRef(FOOTBALL, <<"Team">>)>>,
                          <<subject, URIRef(SCHEMA, <<"name">>),
                            [lex |-> "Arsenal", datatype |-> "xsd:string"]>>,
                          <<subject, URIRef(FOOTBALL, <<"teamCode">>),
                            [lex |-> "ARS", datatype |-> "xsd:string"]>>,
                          <<subject, URIRef(FOOTBALL, <<"country">>),
                            SubjectIRI("Country", 7)>> }

\* C26: a Version is immutable: the version an identifier names keeps the
\* timestamp and the statement set it was created with when later commits
\* are made, and a read of it returns that statement set.
C26_VersionsImmutable ==
    \A i \in 1..Len(issued) :
        /\ \A j \in (i + 1)..Len(issued) :
            issued[j].uri = issued[i].uri =>
                /\ issued[j].timestamp = issued[i].timestamp
                /\ issued[j].version_graph = issued[i].version_graph
        /\ got.uri = issued[i].uri =>
            got.value = [statements |-> issued[i].version_graph]

\* C27: every call of create_version returns an identifier that no earlier
\* call on the store returned, also when two commits carry or read the same
\* timestamp.
C27_VersionIdsUnique ==
    \A i, j \in 1..Len(issued) : i # j => issued[i].uri # issued[j].uri

\* C22: a Delete of entity (T, k) leaves every statement whose subject is
\* another entity as it was, those that have uri(T, k) as object included.
C22_DeleteKeepsOtherSubjects ==
    [][(last'.step = "process_message" /\ last'.outcome = "delete") =>
        LET uri == get_uri_for_entity(
                        Ref(get_model(last'.message.table[1]),
                            last'.message.id[1]))
        IN  {t \in graph' : t[1] # uri} = {t \in graph : t[1] # uri}]_vars

\* C22 witness: a Delete of country 7 was processed and the graph holds a
\* statement of another subject that refers to country 7.
C22_Witness ==
    /\ last.step = "process_message"
    /\ last.outcome = "delete"
    /\ last.message.table = <<"country">>
    /\ \E t \in graph :
        /\ t[1] # SubjectIRI("Country", 7)
        /\ t[3] = SubjectIRI("Country", 7)

\* C24: a poll that times out, an end-of-partition marker and any other
\* consumer error leave the buffer and the graph as they were and the loop
\* polling, and no message is handed to process_message.
C24_PollOutcomesAreSkipped ==
    [][last'.step = "poll" =>
        /\ last'.outcome \in {"none", "partition_eof", "error"}
        /\ buffer' = buffer
        /\ graph' = graph
        /\ pc' = "polling"
        /\ last'.message = NoMessage
        /\ ~last'.flushed]_vars

\* C24 witness: a consumer error was polled while events were buffered and
\* the graph held statements.
C24_Witness ==
    /\ last.step = "poll"
    /\ last.outcome = "error"
    /\ buffer # <<>>
    /\ graph # {}
    /\ pc = "polling"

\* C29: the transformer of the consumer and the registry-driven transformer
\* produce the same set of statements for every instance of a type of the
\* registry: here, for every instance the consumer has buffered or flushed.
C29_TransformersEquivalent ==
    \A change \in {buffer[i] : i \in 1..Len(buffer)}
                    \cup {last.batch[i] : i \in 1..Len(last.batch)} :
        change.model \in DOMAIN config_ENTITY_MAPPINGS =>
            transform_instance(change.instance)
                = registry_transform_instance(change.instance)

\* C25: each consumer owns its buffer: an append, a flush or an error in
\* one consumer leaves the buffer of the other as it was.
C25_BuffersAreOwned ==
    [][/\ FirstStep => TheBuffer(2)' = TheBuffer(2)
       /\ PeerStep => TheBuffer(1)' = TheBuffer(1)]_vars

\* C25 witness: both consumers hold a buffered event, not the same one, and
\* one of them has flushed a batch before.
C25_Witness ==
    /\ buffer # <<>>
    /\ peer.buffer # <<>>
    /\ buffer # peer.buffer
    /\ peer.graph # {}

\* C28: two entities that differ in type or in primary key never get the
\* same IRI.
C28_SubjectIRIInjective ==
    probe # None =>
        /\ probe.iri_a = probe.iri_b => probe.a = probe.b
        /\ probe.reg_a = probe.reg_b => probe.a = probe.b
        /\ probe.iri_a = probe.reg_b => probe.a = probe.b

\* C28 witness: the IRIs of two entities of different types with the same
\* key, and of two entities of one type whose keys share their digits, were
\* built.
C28_Witness ==
    /\ probe # None
    /\ probe.a = <<"PlayerTeam", 11>>
    /\ probe.b = <<"TeamPlayer", 11>>
    /\ probe.iri_a # probe.iri_b

\* The database an import reaches from db when only the fixtures that did
\* not fail are processed, each to its end.
RECURSIVE ImportOf(_, _, _)
ImportOf(db, fixtures_data, succeeded) ==
    IF succeeded = <<>> THEN db
    ELSE LET after == IF Head(succeeded)
                      THEN returned(db, Head(fixtures_data))
                      ELSE db
         IN  ImportOf(after, Tail(fixtures_data), Tail(succeeded))

====
